---- MODULE Spec2Model ----
(***************************************************************************)
(* GetWeather: the AQI engine, the wind compass conversion and the         *)
(* fetch / transform / append run of get_weather2.py and get_weather.py.   *)
(*                                                                         *)
(* Number representation.  Python computes on floats; here every           *)
(* concentration of a species is an exact integer count of 1/Scale(sp) of  *)
(* the unit of that species' breakpoint table, so that the table entries   *)
(* (one decimal at most) and the converted API readings are both exact.    *)
(* A wind direction is an integer count of tenths of a degree.             *)
(***************************************************************************)
EXTENDS Integers, Sequences, FiniteSets, TLC

VARIABLES
    sub_pc, sub_sp, sub_c, sub_out, sub_cat,      \* one call of calculate_sub_aqi / get_aqi_category
    aqi_pc, aqi_current, aqi_subs, aqi_out,       \* one call of calculate_aqi_from_data
    wind_pc, wind_dir, wind_v2, wind_v1,          \* one call of each convert_wind_to_compass
    file,           \* shizuoka_wx_data.xlsx: None while it does not exist
    clock,          \* datetime.now(), counted in runs
    run_script,     \* the script of the last run: "get_weather2" or "get_weather"
    run_weather,    \* the response to its weather request
    run_aq,         \* the response to its air-quality request
    run_requests,   \* the URLs it requested, in order
    run_subs,       \* the sub_aqis list of its calculate_aqi_from_data call
    run_saves,      \* the records it passed to save_combined_data / save_weather_data
    run_msg,        \* the last line it printed
    file_before     \* the file as the last run found it

vars == <<sub_pc, sub_sp, sub_c, sub_out, sub_cat,
          aqi_pc, aqi_current, aqi_subs, aqi_out,
          wind_pc, wind_dir, wind_v2, wind_v1,
          file, clock, run_script, run_weather, run_aq, run_requests,
          run_subs, run_saves, run_msg, file_before>>

subVars == <<sub_pc, sub_sp, sub_c, sub_out, sub_cat>>
aqiVars == <<aqi_pc, aqi_current, aqi_subs, aqi_out>>
windVars == <<wind_pc, wind_dir, wind_v2, wind_v1>>
runVars == <<file, clock, run_script, run_weather, run_aq, run_requests,
             run_subs, run_saves, run_msg, file_before>>

----------------------------------------------------------------------------
(* Python values *)

\* None is the empty sequence, a present value x is <<x>>.
None == <<>>

Some(x) == <<x>>

\* dict.get(key): the value, or None when the key is missing (a JSON null
\* is None as well, so a null field is modelled as a missing one).
Get(d, key) == IF key \in DOMAIN d THEN Some(d[key]) ELSE None

\* round(base + num / den) for whole base, num >= 0, den > 0.  Away from a
\* tie the double the source computes is within 1e-12 of the exact value,
\* which is at least 1 / (2 * den) from the tie, so round() gives the
\* nearest whole number.  At an exact tie the double may fall on either side
\* (round() itself rounds a tie to even): both neighbours are outcomes.
Round(base, num, den) ==
    LET q == num \div den
        r == num % den
    IN  IF 2 * r < den THEN {base + q}
        ELSE IF 2 * r > den THEN {base + q + 1}
        ELSE {base + q, base + q + 1}

RECURSIVE MaxOfSeq(_)
\* max(list) of a non-empty list
MaxOfSeq(s) ==
    IF Len(s) = 1 THEN s[1]
    ELSE LET m == MaxOfSeq(Tail(s)) IN IF s[1] >= m THEN s[1] ELSE m

----------------------------------------------------------------------------
(* The AQI engine of get_weather2.py *)

\* the pollutant keys, in the order calculate_aqi_from_data handles them
SpeciesOrder == <<"pm2_5", "pm10", "carbon_monoxide", "nitrogen_dioxide",
                  "sulphur_dioxide", "ozone">>

Species == {SpeciesOrder[i] : i \in 1..Len(SpeciesOrder)}

\* 1/Scale(sp) of the table unit is the unit concentrations of sp are
\* counted in: fine enough for the conversion factor of the species
\* (0.873/1000, 0.532, 0.375, 0.5) applied to a whole number of ug/m3, and
\* for twentieths of a ug/m3 for the particulates.
Scale(sp) ==
    CASE sp = "pm2_5" -> 20
      [] sp = "pm10" -> 20
      [] sp = "carbon_monoxide" -> 1000000
      [] sp = "nitrogen_dioxide" -> 1000
      [] sp = "sulphur_dioxide" -> 1000
      [] sp = "ozone" -> 10

\* The breakpoint tables as written in the source, in tenths of the table
\* unit: (C_Lo, C_Hi, I_Lo, I_Hi), concentrations times ten.
BreakpointsTenths ==
    [pm2_5 |->
        << <<0, 120, 0, 50>>, <<121, 354, 51, 100>>, <<355, 554, 101, 150>>,
           <<555, 1504, 151, 200>>, <<1505, 2504, 201, 300>>,
           <<2505, 3504, 301, 400>>, <<3505, 5004, 401, 500>> >>,
     pm10 |->
        << <<0, 540, 0, 50>>, <<550, 1540, 51, 100>>, <<1550, 2540, 101, 150>>,
           <<2550, 3540, 151, 200>>, <<3550, 4240, 201, 300>>,
           <<4250, 5040, 301, 400>>, <<5050, 6040, 401, 500>> >>,
     carbon_monoxide |->
        << <<0, 44, 0, 50>>, <<45, 94, 51, 100>>, <<95, 124, 101, 150>>,
           <<125, 154, 151, 200>>, <<155, 304, 201, 300>>,
           <<305, 404, 301, 400>>, <<405, 504, 401, 500>> >>,
     nitrogen_dioxide |->
        << <<0, 530, 0, 50>>, <<540, 1000, 51, 100>>, <<1010, 3600, 101, 150>>,
           <<3610, 6490, 151, 200>>, <<6500, 12490, 201, 300>>,
           <<12500, 16490, 301, 400>>, <<16500, 20490, 401, 500>> >>,
     sulphur_dioxide |->
        << <<0, 350, 0, 50>>, <<360, 750, 51, 100>>, <<760, 1850, 101, 150>>,
           <<1860, 3040, 151, 200>>, <<3050, 6040, 201, 300>>,
           <<6050, 8040, 301, 400>>, <<8050, 10040, 401, 500>> >>,
     ozone |->
        << <<0, 540, 0, 50>>, <<550, 700, 51, 100>>, <<710, 850, 101, 150>>,
           <<860, 1050, 151, 200>>, <<1060, 2000, 201, 300>> >>]

\* aqi_breakpoints.get(pollutant_type): the table of sp in units of
\* 1/Scale(sp), or None for an unknown pollutant type.
aqi_breakpoints(sp) ==
    IF sp \in DOMAIN BreakpointsTenths
    THEN [i \in 1..Len(BreakpointsTenths[sp]) |->
            LET e == BreakpointsTenths[sp][i]
                k == Scale(sp) \div 10
            IN  <<e[1] * k, e[2] * k, e[3], e[4]>>]
    ELSE None

\* get_aqi_category with the top band closed at 500, as the table is
get_aqi_category_capped(aqi_value) ==
    IF aqi_value >= 301 /\ aqi_value <= 500 THEN "Hazardous"
    ELSE IF aqi_value >= 201 /\ aqi_value <= 300 THEN "Very Unhealthy"
    ELSE IF aqi_value >= 151 /\ aqi_value <= 200 THEN "Unhealthy"
    ELSE IF aqi_value >= 101 /\ aqi_value <= 150 THEN "Unhealthy for Sensitive Groups"
    ELSE IF aqi_value >= 51 /\ aqi_value <= 100 THEN "Moderate"
    ELSE "Good"

get_aqi_category(aqi_value) ==
    IF aqi_value >= 301 THEN "Hazardous"
    ELSE IF aqi_value >= 201 THEN "Very Unhealthy"
    ELSE IF aqi_value >= 151 THEN "Unhealthy"
    ELSE IF aqi_value >= 101 THEN "Unhealthy for Sensitive Groups"
    ELSE IF aqi_value >= 51 THEN "Moderate"
    ELSE "Good"

\* Interpolate with the width of the index range taken as I_Hi - I_Lo + 1
InterpolateInclusive(e, value) ==
    Round(e[3], (e[4] - e[3] + 1) * (value - e[1]), e[2] - e[1])

\* round(((I_Hi - I_Lo) / (C_Hi - C_Lo)) * (value - C_Lo) + I_Lo): the set of
\* values the call can return (one value, except at an exact tie).
Interpolate(e, value) ==
    Round(e[3], (e[4] - e[3]) * (value - e[1]), e[2] - e[1])

RECURSIVE SubAqiLoop(_, _, _)
\* the for loop of calculate_sub_aqi from entry i on
SubAqiLoop(value, breakpoints, i) ==
    IF i > Len(breakpoints) THEN {0}
    ELSE LET C_Lo == breakpoints[i][1]
             C_Hi == breakpoints[i][2]
         IN  IF C_Lo <= value /\ value <= C_Hi
             THEN IF C_Hi = C_Lo THEN {breakpoints[i][3]}
                  ELSE Interpolate(breakpoints[i], value)
             ELSE IF value > C_Hi /\ C_Hi = breakpoints[Len(breakpoints)][2]
             THEN {501}
             ELSE SubAqiLoop(value, breakpoints, i + 1)

\* calculate_sub_aqi rejecting a concentration below the table: no value is
\* returned for it (the call raises)
calculate_sub_aqi_strict(pollutant_value, pollutant_type) ==
    IF pollutant_value = None THEN {0}
    ELSE IF aqi_breakpoints(pollutant_type) = None THEN {0}
    ELSE IF pollutant_value[1] < aqi_breakpoints(pollutant_type)[1][1] THEN {}
    ELSE SubAqiLoop(pollutant_value[1], aqi_breakpoints(pollutant_type), 1)

\* pollutant_value is None or Some(concentration in 1/Scale units); the
\* result is the set of values the call can return.
calculate_sub_aqi(pollutant_value, pollutant_type) ==
    IF pollutant_value = None THEN {0}
    ELSE IF aqi_breakpoints(pollutant_type) = None THEN {0}
    ELSE SubAqiLoop(pollutant_value[1], aqi_breakpoints(pollutant_type), 1)

\* The unit conversions of lines 181-190: a reading of x ug/m3 (x counted in
\* twentieths for the particulates, whole for the gases) in 1/Scale units
\* of the table unit.
Convert(sp, x) ==
    CASE sp = "pm2_5" -> x
      [] sp = "pm10" -> x
      [] sp = "carbon_monoxide" -> x * 873
      [] sp = "nitrogen_dioxide" -> x * 532
      [] sp = "sulphur_dioxide" -> x * 375
      [] sp = "ozone" -> x * 5

RECURSIVE SubAqisZeroFill(_, _)
\* SubAqis without the "is not None" tests: an absent reading is passed to
\* calculate_sub_aqi and its 0 is appended like a measured one
SubAqisZeroFill(current, i) ==
    IF i > Len(SpeciesOrder) THEN {<<>>}
    ELSE LET sp == SpeciesOrder[i]
             reading == Get(current, sp)
             value == IF reading # None THEN Some(Convert(sp, reading[1])) ELSE None
         IN  {<<sub>> \o rest :
                 sub \in calculate_sub_aqi(value, sp),
                 rest \in SubAqisZeroFill(current, i + 1)}

RECURSIVE SubAqis(_, _)
\* sub_aqis after the six "if ... is not None: sub_aqis.append(...)" blocks,
\* from block i on: the set of lists the blocks can build
SubAqis(current, i) ==
    IF i > Len(SpeciesOrder) THEN {<<>>}
    ELSE LET sp == SpeciesOrder[i]
             reading == Get(current, sp)
         IN  IF reading # None
             THEN {<<sub>> \o rest :
                     sub \in calculate_sub_aqi(Some(Convert(sp, reading[1])), sp),
                     rest \in SubAqis(current, i + 1)}
             ELSE SubAqis(current, i + 1)

\* FinalAqi taking the sub-index appended last instead of the maximum
FinalAqiLast(sub_aqis) == IF sub_aqis # <<>> THEN sub_aqis[Len(sub_aqis)] ELSE 0

\* max(sub_aqis) if sub_aqis else 0
FinalAqi(sub_aqis) == IF sub_aqis # <<>> THEN MaxOfSeq(sub_aqis) ELSE 0

\* current: the "current" object of the air-quality response, a function
\* from the pollutant keys that are present and not null to their readings.
\* The result is the set of (sub_aqis, (final_aqi, category)) the call can
\* end with.
calculate_aqi_from_data(current) ==
    {<<sub_aqis, <<FinalAqi(sub_aqis), get_aqi_category(FinalAqi(sub_aqis))>> >> :
        sub_aqis \in SubAqis(current, 1)}

----------------------------------------------------------------------------
(* The wind compass conversion; wind_dir in tenths of a degree *)

Return(x) == [kind |-> "return", value |-> x]

Raise(exc) == [kind |-> "raise", value |-> exc]

\* the sixteen labels clockwise from north
CompassOrder == <<"N", "NNE", "NE", "ENE", "E", "ESE", "SE", "SSE",
                  "S", "SSW", "SW", "WSW", "W", "WNW", "NW", "NNW">>

CompassLabels == {CompassOrder[i] : i \in 1..Len(CompassOrder)}

\* a conversion with the sectors centred on the compass points (N from
\* 348.75 to 11.25) instead of starting at them
convert_wind_centred(d) ==
    IF d >= 0 /\ d <= 3600 THEN CompassOrder[(((2 * d + 225) \div 450) % 16) + 1]
    ELSE "Unknown"

\* get_weather2.py: an if / elif chain closed by an else
convert_wind_to_compass(d) ==
    IF d >= 0 /\ d < 225 THEN "N"
    ELSE IF d >= 225 /\ d < 450 THEN "NNE"
    ELSE IF d >= 450 /\ d < 675 THEN "NE"
    ELSE IF d >= 675 /\ d < 900 THEN "ENE"
    ELSE IF d >= 900 /\ d < 1125 THEN "E"
    ELSE IF d >= 1125 /\ d < 1350 THEN "ESE"
    ELSE IF d >= 1350 /\ d < 1575 THEN "SE"
    ELSE IF d >= 1575 /\ d < 1800 THEN "SSE"
    ELSE IF d >= 1800 /\ d < 2025 THEN "S"
    ELSE IF d >= 2025 /\ d < 2250 THEN "SSW"
    ELSE IF d >= 2250 /\ d < 2475 THEN "SW"
    ELSE IF d >= 2475 /\ d < 2700 THEN "WSW"
    ELSE IF d >= 2700 /\ d < 2925 THEN "W"
    ELSE IF d >= 2925 /\ d < 3150 THEN "WNW"
    ELSE IF d >= 3150 /\ d < 3375 THEN "NW"
    ELSE IF d >= 3375 /\ d < 3600 THEN "NNW"
    ELSE IF d = 3600 THEN "N"
    ELSE "Unknown"

\* a conversion that wraps the direction into [0, 360) first
convert_wind_wrapped(d) == Return(CompassOrder[((d % 3600) \div 225) + 1])

\* get_weather.py: seventeen independent ifs, each assigning the local
\* wind_dir_compass, then "return wind_dir_compass".  The local is unbound
\* (None here) until an if assigns it; returning it unbound raises
\* UnboundLocalError.
convert_wind_to_compass_v1(d) ==
    LET w1 == IF d >= 0 /\ d < 225 THEN Some("N") ELSE None
        w2 == IF d >= 225 /\ d < 450 THEN Some("NNE") ELSE w1
        w3 == IF d >= 450 /\ d < 675 THEN Some("NE") ELSE w2
        w4 == IF d >= 675 /\ d < 900 THEN Some("ENE") ELSE w3
        w5 == IF d >= 900 /\ d < 1125 THEN Some("E") ELSE w4
        w6 == IF d >= 1125 /\ d < 1350 THEN Some("ESE") ELSE w5
        w7 == IF d >= 1350 /\ d < 1575 THEN Some("SE") ELSE w6
        w8 == IF d >= 1575 /\ d < 1800 THEN Some("SSE") ELSE w7
        w9 == IF d >= 1800 /\ d < 2025 THEN Some("S") ELSE w8
        w10 == IF d >= 2025 /\ d < 2250 THEN Some("SSW") ELSE w9
        w11 == IF d >= 2250 /\ d < 2475 THEN Some("SW") ELSE w10
        w12 == IF d >= 2475 /\ d < 2700 THEN Some("WSW") ELSE w11
        w13 == IF d >= 2700 /\ d < 2925 THEN Some("W") ELSE w12
        w14 == IF d >= 2925 /\ d < 3150 THEN Some("WNW") ELSE w13
        w15 == IF d >= 3150 /\ d < 3375 THEN Some("NW") ELSE w14
        w16 == IF d >= 3375 /\ d < 3600 THEN Some("NNW") ELSE w15
        w17 == IF d = 3600 THEN Some("N") ELSE w16
    IN  IF w17 = None THEN Raise("UnboundLocalError") ELSE Return(w17[1])

----------------------------------------------------------------------------
(* One run: fetch, transform, append *)

\* the keys get_combined_data and get_weather_data read from the "current"
\* object of the weather response, in the order they are read in both scripts
WeatherFields == <<"temperature_2m", "apparent_temperature",
                   "relative_humidity_2m", "surface_pressure",
                   "wind_speed_10m", "wind_direction_10m", "cloud_cover",
                   "precipitation">>

\* the keys of combined_record, in order (the columns of a new file)
CombinedColumns == <<"date", "time", "temp", "feels_like", "humidity",
                     "pressure", "wind_speed", "wind_dir", "cloud_cover",
                     "precipitation", "aqi">>

\* the keys of the weather dict of get_weather.py, in order
WeatherColumns == <<"date", "time", "temp", "feels_like", "humidity",
                    "pressure", "wind_speed", "wind_dir", "cloud_cover",
                    "precipitation">>

Range(seq) == {seq[i] : i \in 1..Len(seq)}

\* An HTTP exchange: status 0 stands for requests.get raising (no response),
\* any other status comes with the "current" object of the JSON body (empty
\* for an error body).
NoResponse == [status |-> 0, current |-> <<>>]

\* the "Failed to retrieve ..." line of either main
FailedMessage == "Failed to retrieve data."

SavedMessage == "saved successfully"

\* an uncaught exception ends the run with its traceback
Traceback(exc) == "Traceback: " \o exc

\* float(f"{kph / 3.6:.2f}"): tenths of a km/h to hundredths of a m/s.  A
\* tie would need 100 t = 36 n + 18, which has no solution, so the set Round
\* gives has one element.
KphToMps(t) == CHOOSE x \in Round(0, 100 * t, 36) : TRUE

Outcome(kind, value, subs) == [kind |-> kind, value |-> value, subs |-> subs]

\* fetch without raise_for_status: the body of an error response is used
FetchUnchecked(response) ==
    IF response.status = 0 THEN None
    ELSE Some(response.current)

\* One try block of get_combined_data: requests.get, raise_for_status (which
\* raises for 400 <= status < 600), response.json(); None after the except.
Fetch(response) ==
    IF response.status = 0 THEN None
    ELSE IF response.status >= 400 /\ response.status < 600 THEN None
    ELSE Some(response.current)

\* the first i keys of WeatherFields are all in the "current" object
HasFields(current, i) == \A j \in 1..i : WeatherFields[j] \in DOMAIN current

\* the dict both scripts build from the weather "current" object, given
\* the label its convert_wind_to_compass returned
WeatherDict(current, now, compass) ==
    [date |-> Some(now), time |-> Some(now),
     temp |-> Some(current["temperature_2m"]),
     feels_like |-> Some(current["apparent_temperature"]),
     humidity |-> Some(current["relative_humidity_2m"]),
     pressure |-> Some(current["surface_pressure"]),
     wind_speed |-> Some(KphToMps(current["wind_speed_10m"])),
     wind_dir |-> Some(compass),
     cloud_cover |-> Some(current["cloud_cover"]),
     precipitation |-> Some(current["precipitation"])]

\* get_combined_data of get_weather2.py: the set of ways the call can end
get_combined_data(weather_response, aq_response, now) ==
    LET weather_data == Fetch(weather_response)
        aq_data == Fetch(aq_response)
    IN  IF weather_data # None /\ aq_data # None
        THEN IF ~HasFields(weather_data[1], Len(WeatherFields))
             THEN {Outcome("raise", "KeyError", <<>>)}
             ELSE {Outcome("record",
                           WeatherDict(weather_data[1], now,
                                       convert_wind_to_compass(
                                           weather_data[1]["wind_direction_10m"]))
                               @@ [aqi |-> Some(res[2][1])],
                           res[1]) :
                      res \in calculate_aqi_from_data(aq_data[1])}
        ELSE {Outcome("None", None, <<>>)}

\* get_weather_data of get_weather.py: requests.get outside any try, the
\* status compared with 200, the dict built key by key
get_weather_data(weather_response, now) ==
    IF weather_response.status = 0 THEN Outcome("raise", "ConnectionError", <<>>)
    ELSE IF weather_response.status # 200 THEN Outcome("None", None, <<>>)
    ELSE LET current == weather_response.current
         IN  IF ~HasFields(current, 6)
             THEN Outcome("raise", "KeyError", <<>>)
             ELSE LET compass ==
                          convert_wind_to_compass_v1(current["wind_direction_10m"])
                  IN  IF compass.kind = "raise"
                      THEN Outcome("raise", compass.value, <<>>)
                      ELSE IF ~HasFields(current, Len(WeatherFields))
                      THEN Outcome("raise", "KeyError", <<>>)
                      ELSE Outcome("record",
                                   WeatherDict(current, now, compass.value),
                                   <<>>)

(* pandas and openpyxl.  A DataFrame is [columns, data]; the workbook is
   [header, rows, centered]; a row maps each column to a cell, Some(value)
   or None for NaN / the empty cell. *)

\* strings read_excel turns into NaN by default (some of them)
NaStrings == {"", "NA", "N/A", "NULL", "NaN", "None", "nan", "null", "n/a", "<NA>"}

\* the columns holding strings
StringColumns == {"wind_dir"}

\* read_excel on one cell
FromCell(column, cell) ==
    IF cell = None THEN None
    ELSE IF column \in StringColumns /\ cell[1] \in NaStrings THEN None
    ELSE cell

\* to_excel on one value: NaN becomes the empty cell
ToCell(value) == value

\* pd.DataFrame([record]) for a dict with the given key order
DataFrame(record, keys) == [columns |-> keys, data |-> <<record>>]

read_excel(workbook) ==
    [columns |-> workbook.header,
     data |-> [i \in 1..Len(workbook.rows) |->
                  [c \in Range(workbook.header) |-> FromCell(c, workbook.rows[i][c])]]]

\* df._append(record, ignore_index=True): the record's new keys become
\* columns after the old ones, cells with no value are NaN
df_append(df, record, keys) ==
    LET columns == df.columns \o SelectSeq(keys, LAMBDA k : k \notin Range(df.columns))
        reindex(row) == [c \in Range(columns) |->
                            IF c \in DOMAIN row THEN row[c] ELSE None]
    IN  [columns |-> columns,
         data |-> [i \in 1..Len(df.data) |-> reindex(df.data[i])]
                      \o <<reindex(record)>>]

\* df.to_excel(name, index=False): a fresh workbook
to_excel(df) ==
    [header |-> df.columns,
     rows |-> [i \in 1..Len(df.data) |->
                  [c \in Range(df.columns) |-> ToCell(df.data[i][c])]],
     centered |-> FALSE]

\* every cell centred and every column width set; no cell value is touched
adjust_column_width_and_center(workbook) == [workbook EXCEPT !.centered = TRUE]

\* the save writing the new record alone, without reading the file
SaveOverwrite(f, record, keys) ==
    adjust_column_width_and_center(to_excel(DataFrame(record, keys)))

\* save_combined_data and save_weather_data (the same code): f is the file
\* before the call, None when os.path.exists is false; the result is the
\* file after it
Save(f, record, keys) ==
    IF f = None
    THEN adjust_column_width_and_center(to_excel(DataFrame(record, keys)))
    ELSE adjust_column_width_and_center(
             to_excel(df_append(read_excel(f[1]), record, keys)))

save_combined_data(f, combined_data) == Some(Save(f, combined_data, CombinedColumns))

save_weather_data(f, weather_data) == Some(Save(f, weather_data, WeatherColumns))

(* The responses tried *)

\* runs per behaviour
MaxRuns == 2

\* a complete weather "current" object with the given wind direction
\* (tenths of a degree); wind speed 13.0 km/h
WeatherCurrent(direction) ==
    [temperature_2m |-> 215, apparent_temperature |-> 223,
     relative_humidity_2m |-> 60, surface_pressure |-> 1013,
     wind_speed_10m |-> 130, wind_direction_10m |-> direction,
     cloud_cover |-> 75, precipitation |-> 0]

\* d without the key k
Without(d, k) == [x \in (DOMAIN d) \ {k} |-> d[x]]

\* in-domain and out-of-domain wind directions
RunDirections == {0, 3600, -10, 3610}

WeatherResponses ==
    {NoResponse, [status |-> 500, current |-> <<>>]}
    \cup {[status |-> 200, current |-> WeatherCurrent(d)] : d \in RunDirections}
    \cup {[status |-> 200, current |-> Without(WeatherCurrent(0), k)] :
             k \in Range(WeatherFields)}

\* the reading of the spec's end-to-end scenario for each species
ScenarioReading(sp) ==
    CASE sp = "pm2_5" -> 200
      [] sp = "pm10" -> 800
      [] sp = "carbon_monoxide" -> 200
      [] sp = "nitrogen_dioxide" -> 20
      [] sp = "sulphur_dioxide" -> 10
      [] sp = "ozone" -> 60

\* every subset of the six pollutant fields present, the others null
AqResponses ==
    {NoResponse, [status |-> 404, current |-> <<>>]}
    \cup {[status |-> 200, current |-> [sp \in present |-> ScenarioReading(sp)]] :
             present \in SUBSET Species}

----------------------------------------------------------------------------
(* Calls of the pure functions on inputs drawn from grids *)

\* grid points taken beyond each end of a table, and of the compass domain
Margin == 4

\* the grid step of the concentrations tried on calculate_sub_aqi:
\* 0.05 of the table unit where the table has decimals, 0.5 where it is whole
GridStep(sp) ==
    IF sp \in {"pm2_5", "carbon_monoxide"} THEN Scale(sp) \div 20
    ELSE Scale(sp) \div 2

LowestLo(sp) == aqi_breakpoints(sp)[1][1]

HighestHi(sp) == aqi_breakpoints(sp)[Len(aqi_breakpoints(sp))][2]

\* every grid point from Margin steps below the table to Margin steps above
\* it, and one concentration far above it
SubGrid(sp) ==
    {k * GridStep(sp) :
        k \in (LowestLo(sp) \div GridStep(sp)) - Margin
              .. (HighestHi(sp) \div GridStep(sp)) + Margin}
    \cup {3 * HighestHi(sp)}

\* the variables of the calls and of the runs while a specification leaves
\* them alone
IdleSub ==
    /\ sub_pc = "idle" /\ sub_sp = "pm2_5" /\ sub_c = 0 /\ sub_out = 0
    /\ sub_cat = ""

IdleAqi ==
    /\ aqi_pc = "idle" /\ aqi_current = <<>> /\ aqi_subs = <<>>
    /\ aqi_out = <<0, "">>

IdleWind ==
    /\ wind_pc = "idle" /\ wind_dir = 0 /\ wind_v2 = "" /\ wind_v1 = Return("")

\* no run yet, no file yet
IdleRun ==
    /\ file = None /\ clock = 0 /\ file_before = None
    /\ run_script = "" /\ run_weather = NoResponse /\ run_aq = NoResponse
    /\ run_requests = <<>> /\ run_subs = <<>> /\ run_saves = <<>>
    /\ run_msg = ""

(* calculate_sub_aqi, then get_aqi_category on its result *)

InitSub ==
    /\ sub_pc = "call"
    /\ sub_sp \in Species
    /\ sub_c \in SubGrid(sub_sp)
    /\ sub_out = 0 /\ sub_cat = ""
    /\ IdleAqi /\ IdleWind /\ IdleRun

CallSubAqi ==
    /\ sub_pc = "call"
    /\ sub_out' \in calculate_sub_aqi(Some(sub_c), sub_sp)
    /\ sub_pc' = "category"
    /\ UNCHANGED <<sub_sp, sub_c, sub_cat, aqiVars, windVars, runVars>>

CallCategory ==
    /\ sub_pc = "category"
    /\ sub_cat' = get_aqi_category(sub_out)
    /\ sub_pc' = "done"
    /\ UNCHANGED <<sub_sp, sub_c, sub_out, aqiVars, windVars, runVars>>

NextSub == CallSubAqi \/ CallCategory

SpecSub == InitSub /\ [][NextSub]_vars

(* calculate_aqi_from_data *)

\* The readings tried for a species, in the units Convert takes: a negative
\* one, small and middle ones (for pm2_5 an exact rounding tie, 5.4, and a
\* value in the gap between two table ranges, 12.05, among them), and one
\* above the table.
Readings(sp) ==
    CASE sp = "pm2_5" -> {-20, 108, 200, 241, 10020}
      [] sp = "pm10" -> {-1, 800, 6000, 12100}
      [] sp = "carbon_monoxide" -> {-5, 200, 20000, 57800}
      [] sp = "nitrogen_dioxide" -> {-3, 20, 700, 3852}
      [] sp = "sulphur_dioxide" -> {-8, 10, 400, 2680}
      [] sp = "ozone" -> {-2, 60, 180, 401}

RECURSIVE CurrentsFrom(_)
\* the "current" objects over the species from position i on: each species
\* absent (or null) or present with one of its readings
CurrentsFrom(i) ==
    IF i > Len(SpeciesOrder) THEN {<<>>}
    ELSE LET rest == CurrentsFrom(i + 1)
         IN  rest \cup {(SpeciesOrder[i] :> x) @@ c :
                           x \in Readings(SpeciesOrder[i]), c \in rest}

Currents == CurrentsFrom(1)

InitAqi ==
    /\ aqi_pc = "call"
    /\ aqi_current \in Currents
    /\ aqi_subs = <<>> /\ aqi_out = <<0, "">>
    /\ IdleSub /\ IdleWind /\ IdleRun

CallAqi ==
    /\ aqi_pc = "call"
    /\ \E res \in calculate_aqi_from_data(aqi_current) :
          /\ aqi_subs' = res[1]
          /\ aqi_out' = res[2]
    /\ aqi_pc' = "done"
    /\ UNCHANGED <<aqi_current, subVars, windVars, runVars>>

NextAqi == CallAqi

SpecAqi == InitAqi /\ [][NextAqi]_vars

(* convert_wind_to_compass of get_weather2.py, then that of get_weather.py *)

\* every tenth of a degree from Margin below 0 to Margin above 360, and two
\* directions far outside
Directions == (0 - Margin .. 3600 + Margin) \cup {-900, 7200}

InitWind ==
    /\ wind_pc = "v2"
    /\ wind_dir \in Directions
    /\ wind_v2 = "" /\ wind_v1 = Return("")
    /\ IdleSub /\ IdleAqi /\ IdleRun

CallCompass ==
    /\ wind_pc = "v2"
    /\ wind_v2' = convert_wind_to_compass(wind_dir)
    /\ wind_pc' = "v1"
    /\ UNCHANGED <<wind_dir, wind_v1, subVars, aqiVars, runVars>>

CallCompassV1 ==
    /\ wind_pc = "v1"
    /\ wind_v1' = convert_wind_to_compass_v1(wind_dir)
    /\ wind_pc' = "done"
    /\ UNCHANGED <<wind_dir, wind_v2, subVars, aqiVars, runVars>>

NextWind == CallCompass \/ CallCompassV1

SpecWind == InitWind /\ [][NextWind]_vars

(* The runs of the two scripts against the same file *)

Init ==
    /\ IdleSub /\ IdleAqi /\ IdleWind /\ IdleRun

\* main of get_weather2.py, started when no run is under way
main ==
    /\ clock < MaxRuns
    /\ run_script = ""
    /\ \E w \in WeatherResponses, a \in AqResponses :
         \E combined_data \in get_combined_data(w, a, clock + 1) :
            /\ run_weather' = w
            /\ run_aq' = a
            /\ run_subs' = combined_data.subs
            /\ IF combined_data.kind = "record"
               THEN /\ file' = save_combined_data(file, combined_data.value)
                    /\ run_saves' = <<combined_data.value>>
                    /\ run_msg' = SavedMessage
               ELSE /\ file' = file
                    /\ run_saves' = <<>>
                    /\ run_msg' = IF combined_data.kind = "raise"
                                  THEN Traceback(combined_data.value)
                                  ELSE FailedMessage
    /\ run_script' = "get_weather2"
    /\ run_requests' = <<"WEATHER_API_URL", "AQ_API_URL">>
    /\ file_before' = file
    /\ clock' = clock + 1
    /\ UNCHANGED <<subVars, aqiVars, windVars>>

\* main of get_weather.py, started when no run is under way
main_v1 ==
    /\ clock < MaxRuns
    /\ run_script = ""
    /\ \E w \in WeatherResponses :
         LET weather_data == get_weather_data(w, clock + 1)
         IN  /\ run_weather' = w
             /\ IF weather_data.kind = "record"
                THEN /\ file' = save_weather_data(file, weather_data.value)
                     /\ run_saves' = <<weather_data.value>>
                     /\ run_msg' = SavedMessage
                ELSE /\ file' = file
                     /\ run_saves' = <<>>
                     /\ run_msg' = IF weather_data.kind = "raise"
                                   THEN Traceback(weather_data.value)
                                   ELSE FailedMessage
    /\ run_script' = "get_weather"
    /\ run_aq' = NoResponse
    /\ run_subs' = <<>>
    /\ run_requests' = <<"URL">>
    /\ file_before' = file
    /\ clock' = clock + 1
    /\ UNCHANGED <<subVars, aqiVars, windVars>>

\* The process ends: nothing but the file outlives a run.
Exit ==
    /\ run_script # ""
    /\ run_script' = "" /\ run_weather' = NoResponse /\ run_aq' = NoResponse
    /\ run_requests' = <<>> /\ run_subs' = <<>> /\ run_saves' = <<>>
    /\ run_msg' = "" /\ file_before' = None
    /\ UNCHANGED <<file, clock, subVars, aqiVars, windVars>>

Next == main \/ main_v1 \/ Exit

Spec == Init /\ [][Next]_vars

----------------------------------------------------------------------------
(* Properties of the AQI engine *)

\* m is the greatest element of the list s
IsMaxOf(m, s) ==
    /\ \E i \in 1..Len(s) : s[i] = m
    /\ \A i \in 1..Len(s) : s[i] <= m

\* the category the fixed thresholds assign to an index
ThresholdCategory(index) ==
    LET bands == << <<301, "Hazardous">>, <<201, "Very Unhealthy">>,
                    <<151, "Unhealthy">>,
                    <<101, "Unhealthy for Sensitive Groups">>,
                    <<51, "Moderate">> >>
        hit == {i \in 1..Len(bands) : index >= bands[i][1]}
    IN  IF hit = {} THEN "Good"
        ELSE bands[CHOOSE i \in hit : \A j \in hit : i <= j][2]

\* the present species of a "current" object, in the order of the source
PresentOrder(current) ==
    SelectSeq(SpeciesOrder, LAMBDA sp : sp \in DOMAIN current)

\* the position in sub_aqis of the sub-index of a present species
PosOf(current, sp) ==
    CHOOSE i \in 1..Len(PresentOrder(current)) : PresentOrder(current)[i] = sp

\* C1: calculate_aqi_from_data returns, for every combination of absent and
\* present readings, one sub-index per present reading (a value
\* calculate_sub_aqi can return for the converted reading), the maximum of
\* these sub-indices as the index, 0 when no reading is present, and the
\* category the thresholds assign to that index; all absent gives (0, Good).
C1_CompositeIsMax ==
    aqi_pc = "done" =>
        /\ Len(aqi_subs) = Cardinality(DOMAIN aqi_current)
        /\ \A i \in 1..Len(aqi_subs) :
              LET sp == PresentOrder(aqi_current)[i]
              IN  aqi_subs[i] \in
                      calculate_sub_aqi(Some(Convert(sp, aqi_current[sp])), sp)
        /\ IF DOMAIN aqi_current = {}
           THEN aqi_out = <<0, "Good">>
           ELSE IsMaxOf(aqi_out[1], aqi_subs)
        /\ aqi_out[2] = ThresholdCategory(aqi_out[1])

\* four readings present with different sub-indices, the greatest of them
\* neither the first nor the last computed, in the Unhealthy band
C1_Witness ==
    /\ aqi_pc = "done"
    /\ Len(aqi_subs) = 4
    /\ aqi_out[2] = "Unhealthy"
    /\ aqi_subs[1] < aqi_out[1]
    /\ aqi_subs[4] < aqi_out[1]

\* the entry of the table of sp (in 1/Scale units) that contains c
EntriesContaining(sp, c) ==
    {i \in 1..Len(aqi_breakpoints(sp)) :
        aqi_breakpoints(sp)[i][1] <= c /\ c <= aqi_breakpoints(sp)[i][2]}

\* C2: every concentration between the lowest C_lo and the highest C_hi of
\* its species' table lies in exactly one range of the table, and
\* calculate_sub_aqi returns the interpolated value of that range for it.
C2_NoGaps ==
    (sub_pc # "call" /\ LowestLo(sub_sp) <= sub_c /\ sub_c <= HighestHi(sub_sp)) =>
        /\ Cardinality(EntriesContaining(sub_sp, sub_c)) = 1
        /\ \A i \in EntriesContaining(sub_sp, sub_c) :
              LET e == aqi_breakpoints(sub_sp)[i]
              IN  \E n \in 0..(e[4] - e[3]) :
                     /\ sub_out = e[3] + n
                     \* |sub_out - exact interpolation| <= 1/2
                     /\ 2 * (e[4] - e[3]) * (sub_c - e[1]) - 2 * n * (e[2] - e[1])
                           <= e[2] - e[1]
                     /\ 2 * n * (e[2] - e[1]) - 2 * (e[4] - e[3]) * (sub_c - e[1])
                           <= e[2] - e[1]

\* C3: at a concentration equal to the C_lo of an entry calculate_sub_aqi
\* returns exactly the entry's I_lo, and at its C_hi exactly its I_hi.
C3_ExactAtBreakpoints ==
    sub_pc # "call" =>
        \A i \in 1..Len(BreakpointsTenths[sub_sp]) :
            LET e == BreakpointsTenths[sub_sp][i]
                k == Scale(sub_sp) \div 10
            IN  /\ sub_c = e[1] * k => sub_out = e[3]
                /\ sub_c = e[2] * k => sub_out = e[4]

\* the call was made at the upper bound of the second ozone range (70 ppb)
\* and at no lower bound, and returned that range's I_hi
C3_Witness ==
    /\ sub_pc = "done"
    /\ sub_sp = "ozone"
    /\ sub_c = 700
    /\ sub_out = 100

\* C4: a concentration strictly above the C_hi of the last entry of its
\* species' table gives sub-index 501, and the index 501 gets the category
\* "Hazardous".
C4_AboveTableIsHazardous ==
    /\ (sub_pc # "call" /\ sub_c > HighestHi(sub_sp)) => sub_out = 501
    /\ (sub_pc = "done" /\ sub_out = 501) => sub_cat = "Hazardous"

\* ozone one grid step above its last range (200 ppb), categorised
C4_Witness ==
    /\ sub_pc = "done"
    /\ sub_sp = "ozone"
    /\ sub_c = 2005
    /\ sub_out = 501
    /\ sub_cat = "Hazardous"

\* the sub-indices of the present species other than sp
OtherSubs(sp) ==
    {aqi_subs[i] : i \in (1..Len(aqi_subs)) \ {PosOf(aqi_current, sp)}}

\* C5: a present reading below the lowest range of its table gives sub-index
\* 0 and raises nothing: the call has a result to return (so CallAqi is
\* enabled), with the maximum of the other present sub-indices and that 0 as
\* the index.
C5_BelowTableIsZero ==
    /\ aqi_pc = "call" => calculate_aqi_from_data(aqi_current) # {}
    /\ aqi_pc = "done" =>
          \A sp \in DOMAIN aqi_current :
              Convert(sp, aqi_current[sp]) < LowestLo(sp) =>
                  /\ aqi_subs[PosOf(aqi_current, sp)] = 0
                  /\ aqi_out[1] \in OtherSubs(sp) \cup {0}
                  /\ \A x \in OtherSubs(sp) \cup {0} : x <= aqi_out[1]

\* a negative ozone reading next to a positive pm10 reading that decides
\* the index
C5_Witness ==
    /\ aqi_pc = "done"
    /\ DOMAIN aqi_current = {"pm10", "ozone"}
    /\ aqi_current["ozone"] < 0
    /\ aqi_subs = <<aqi_out[1], 0>>
    /\ aqi_out[1] > 0

----------------------------------------------------------------------------
(* Properties of the compass conversion *)

\* C9: for 0 <= d <= 360 both conversions return the label of the sector k
\* with 22.5 k <= d < 22.5 (k + 1), in the order N, NNE, ..., NNW, and "N"
\* for 360; in particular they agree.
C9_SectorLabel ==
    (wind_pc = "done" /\ wind_dir >= 0 /\ wind_dir <= 3600) =>
        LET label == IF wind_dir = 3600 THEN "N"
                     ELSE CompassOrder[(wind_dir \div 225) + 1]
        IN  /\ wind_v2 = label
            /\ wind_v1 = Return(label)

\* both conversions were called on 22.5 degrees and returned NNE
C9_Witness ==
    /\ wind_pc = "done"
    /\ wind_dir = 225
    /\ wind_v2 = "NNE"
    /\ wind_v1 = Return("NNE")

----------------------------------------------------------------------------
(* Properties of the runs *)

\* the cell in row i, column position j of a workbook; a cell beyond the
\* header was never written and is empty
CellAt(workbook, i, j) ==
    IF j <= Len(workbook.header) THEN workbook.rows[i][workbook.header[j]]
    ELSE None

\* the key order of the record the last run built
RunColumns == IF run_script = "get_weather2" THEN CombinedColumns ELSE WeatherColumns

\* the fetch got no response or a status that is not 2xx
FetchFailed(response) ==
    response.status = 0 \/ response.status < 200 \/ response.status > 299

C8_PartialPollutantsTolerated ==
    (run_script = "get_weather2" /\ ~FetchFailed(run_weather) /\ ~FetchFailed(run_aq)) =>
        IF Range(WeatherFields) \subseteq DOMAIN run_weather.current
        THEN /\ Len(run_saves) = 1
             /\ run_msg = SavedMessage
             /\ file # None
             /\ Len(file[1].rows) =
                   IF file_before = None THEN 1 ELSE Len(file_before[1].rows) + 1
             /\ Len(run_subs) = Cardinality(DOMAIN run_aq.current)
             /\ IF run_subs = <<>> THEN run_saves[1]["aqi"] = Some(0)
                ELSE IsMaxOf(run_saves[1]["aqi"][1], run_subs)
             /\ file[1].rows[Len(file[1].rows)]["aqi"] = run_saves[1]["aqi"]
        ELSE /\ run_saves = <<>>
             /\ file = file_before
             /\ run_msg = Traceback("KeyError")

\* only carbon monoxide and ozone were reported: two sub-indices, the
\* greater one saved
C8_Witness ==
    /\ run_script = "get_weather2"
    /\ run_aq.status = 200
    /\ DOMAIN run_aq.current = {"carbon_monoxide", "ozone"}
    /\ run_subs = <<2, 28>>
    /\ run_saves # <<>>
    /\ file # None
    /\ file[1].rows[Len(file[1].rows)]["aqi"] = Some(28)

\* the weather response of the last run has a "current" object with a wind
\* direction outside [0, 360] and every other key read before the record is
\* complete
OutOfDomainRun ==
    /\ run_script # ""
    /\ ~FetchFailed(run_weather)
    /\ (run_script = "get_weather2" => ~FetchFailed(run_aq))
    /\ Range(WeatherFields) \subseteq DOMAIN run_weather.current
    /\ \/ run_weather.current["wind_direction_10m"] < 0
       \/ run_weather.current["wind_direction_10m"] > 3600

\* the wind_dir cells of the file
WindDirCells ==
    IF file = None THEN {}
    ELSE {file[1].rows[i]["wind_dir"] : i \in 1..Len(file[1].rows)}

\* C10 as stated: for a direction outside [0, 360] the conversion fails with
\* an error, the run writes nothing, and no row with a non-compass wind_dir
\* is ever appended.
C10_OutOfDomainFails ==
    /\ OutOfDomainRun =>
          /\ run_saves = <<>>
          /\ file = file_before
          /\ run_msg = Traceback("UnboundLocalError")
    /\ \A cell \in WindDirCells : cell # None /\ cell[1] \in CompassLabels

\* C10 amended: for a direction outside [0, 360] get_weather.py fails with
\* UnboundLocalError and appends nothing, while get_weather2.py appends a
\* row whose wind_dir is "Unknown"; every wind_dir in the file is one of the
\* sixteen compass labels or "Unknown".
C10_UnknownOnlyInV2 ==
    /\ (OutOfDomainRun /\ run_script = "get_weather") =>
          /\ run_saves = <<>>
          /\ file = file_before
          /\ run_msg = Traceback("UnboundLocalError")
    /\ (OutOfDomainRun /\ run_script = "get_weather2") =>
          /\ Len(run_saves) = 1
          /\ run_saves[1]["wind_dir"] = Some("Unknown")
          /\ file # None
          /\ file[1].rows[Len(file[1].rows)]["wind_dir"] = Some("Unknown")
          /\ run_msg = SavedMessage
    /\ \A cell \in WindDirCells :
          cell # None /\ cell[1] \in CompassLabels \cup {"Unknown"}

\* get_weather.py has just failed on 361 degrees, on a file whose only row
\* get_weather2.py wrote with wind_dir "Unknown"
C10_Witness ==
    /\ OutOfDomainRun
    /\ run_script = "get_weather"
    /\ run_weather.current["wind_direction_10m"] = 3610
    /\ run_msg = Traceback("UnboundLocalError")
    /\ file # None
    /\ file[1].header = CombinedColumns
    /\ WindDirCells = {Some("Unknown")}

====
